---- MODULE Spec2Model ----
(***************************************************************************)
(* Batch verification orchestrator of video-kyc: VerificationScheduler     *)
(* (src/services/AtlasApiClient.js, lines 72-746) as a state machine.      *)
(*                                                                         *)
(* JavaScript runs every handler to its next await; an action of this      *)
(* module is one such run-to-completion slice: an API call (runBatch,      *)
(* verifySingleStudent, startScheduler, stopScheduler, updateConfig), a    *)
(* cron tick, or the continuation that a settled remote call or an         *)
(* elapsed timer resumes.  The synchronous code of a slice is written as   *)
(* operators from a state record to a state record; an action applies one  *)
(* of them to the current state.                                           *)
(***************************************************************************)
EXTENDS Integers, Sequences, FiniteSets, TLC

\* ------------------------------------------------------------------ bounds
\* Longest subject list the Work Source returns.
MaxStudents == 2
\* Longest document list of one subject.
MaxDocs == 2
\* Largest retryAttempts / concurrency value the environment or updateConfig sets.
MaxRetry == 2
MaxConcurrency == 2
\* Runs that may be started in one behaviour (run ids 1..MaxRunStarts).
MaxRunStarts == 1
\* updateConfig calls in one behaviour.
MaxConfigUpdates == 1
\* Capacities of the log buffer and of the run history (this.maxLogs = 500 and
\* this.maxRuns = 50 in the constructor), scaled down.
maxLogs == 2
maxRuns == 1
\* log calls in one behaviour of the log buffer on its own.
MaxLogCalls == 4
\* Runs that may be started in one behaviour of the run history.
MaxHistoryRuns == 3

\* ------------------------------------------------------------ JS values
Null == [null |-> TRUE]
Undefined == [undefined |-> TRUE]
\* A JS string is its sequence of characters.
Str(chars) == [chars |-> chars]
IsString(v) == v # Null /\ v # Undefined
\* An Error object with its message.
Err(message) == [message |-> message]
Whitespace == {" "}

\* String.prototype.trim(): leading and trailing whitespace removed.
RECURSIVE TrimLeft(_)
TrimLeft(c) ==
    IF c # <<>> /\ Head(c) \in Whitespace THEN TrimLeft(Tail(c)) ELSE c
RECURSIVE TrimRight(_)
TrimRight(c) ==
    IF c # <<>> /\ c[Len(c)] \in Whitespace
    THEN TrimRight(SubSeq(c, 1, Len(c) - 1)) ELSE c
NoTrim(v) == v
Trim(v) == Str(TrimRight(TrimLeft(v.chars)))

\* JS truthiness of a value that is null, undefined or a string.
Truthy(v) == IsString(v) /\ v.chars # <<>>

\* Array.prototype.slice(start) for an integer start.
SliceFrom(arr, start) ==
    LET n == Len(arr)
        from == IF start < 0 THEN (IF n + start < 0 THEN 0 ELSE n + start)
                ELSE (IF start > n THEN n ELSE start)
    IN  SubSeq(arr, from + 1, n)

\* Array.prototype.slice(i, j) for 0 <= i.
Slice(arr, i, j) ==
    LET n == Len(arr)
        to == IF j < 0 THEN (IF n + j < 0 THEN 0 ELSE n + j)
              ELSE (IF j > n THEN n ELSE j)
    IN  SubSeq(arr, i + 1, to)

\* --------------------------------------------------------- environment
Students == {"s1", "s2"}
\* An entry of the subject list with no applnID / id / application_id.
NoId == "noid"
StudentEntries == Students \cup {NoId}

RECURSIVE SeqsUpTo(_, _)
SeqsUpTo(S, n) ==
    IF n = 0 THEN {<<>>}
    ELSE LET shorter == SeqsUpTo(S, n - 1)
         IN  shorter \cup {Append(q, x) : q \in {r \in shorter : Len(r) = n - 1}, x \in S}

\* What getStudentList resolves to: no usable data, or a list of entries.
NoData == [nodata |-> TRUE]
WithData(data) == [data |-> data]
\* Subjects are interchangeable: a list names "s1" before it names "s2".
FirstIsS1(l) ==
    \A i \in 1..Len(l) : l[i] = "s2" => \E j \in 1..(i - 1) : l[j] = "s1"
StudentLists ==
    {WithData(l) : l \in {q \in SeqsUpTo(StudentEntries, MaxStudents) : FirstIsS1(q)}}

\* file_url of a document: missing, empty, whitespace-only, or a reference.
FileUrls == {Null, Str(<<>>), Str(<<" ">>), Str(<<"u">>)}
\* verify_status '2' is "already verified" at the Work Source.
VerifyStatuses == {"0", "2"}
DocKinds == [file_url : FileUrls, verify_status : VerifyStatuses]
\* A document list: document_type_id is the position in the list.
MkDocs(kinds) ==
    [i \in 1..Len(kinds) |->
        [document_type_id |-> i, file_url |-> kinds[i].file_url,
         verify_status |-> kinds[i].verify_status]]
AllDocLists == {WithData(MkDocs(k)) : k \in SeqsUpTo(DocKinds, MaxDocs)}
\* The document lists of one document that carries content and is not yet verified.
OneDocLists == {WithData(MkDocs(<<[file_url |-> Str(<<"u">>), verify_status |-> "0"]>>))}

\* Error messages of a failed remote call.  withRetry looks for the
\* substrings 429, quota, 401, 403; "timeout" stands for every other message.
TransientMessages == {"timeout"}
ErrorMessages == TransientMessages \cup {"429", "quota", "401", "403"}
\* The status field the Verification Backend answers with: one of the two
\* verdicts it is prompted for, or another string ("skip").
Verdicts == {"approve", "reject"}
BackendStatuses == Verdicts \cup {"skip"}
\* What an operation handed to withRetry does at one invocation.
Outcomes == ErrorMessages \cup {"ok"}

\* Interval-schedule expressions: two that cron.validate accepts, one it rejects.
ValidSchedules == {"0 */2 * * *", "*/5 * * * *"}
InvalidSchedule == "bad"
Schedules == ValidSchedules \cup {InvalidSchedule}
cronValidate(schedule) == schedule \in ValidSchedules

\* ------------------------------------- DocumentVerificationService
\* A response text as parseAIResponse reads it: whitespace around it or not,
\* an opening code fence (none, bare, or tagged json), a closing fence or not, and
\* the body between them.
Fences == {"none", "bare", "json"}
\* The "status" member of a JSON object: absent, the empty string, or a word.
JsonStatuses == {"absent", "empty", "approve", "reject", "skip"}
\* The "remark" member of a JSON object: absent or a sentence.
JsonRemarks == {"absent", "given"}
\* The body as JSON.parse reads it: not JSON, a JSON value that is no object,
\* or an object with its members.
JsonKinds == {"invalid", "null", "number", "string", "array"}
Bodies ==
    {[kind |-> k, status |-> "absent", remark |-> "absent"] : k \in JsonKinds}
    \cup [kind : {"object"}, status : JsonStatuses, remark : JsonRemarks]
StringTexts == [padded : BOOLEAN, open : Fences, close : BOOLEAN, body : Bodies]
\* A text that is no string: message.content null, a content block without
\* a text member, a number.
NonStrings == {Null, Undefined, [number |-> 7]}
Texts == StringTexts \cup NonStrings

\* What a call gives its caller.
Returns(value) == [returns |-> value]
Throws(error) == [throws |-> error]

\* text.trim() and the two replace() calls (lines 202-205).
Cleaned(t) ==
    IF t.open # "none"
    THEN [t EXCEPT !.padded = FALSE, !.open = "none", !.close = FALSE]
    ELSE [t EXCEPT !.padded = FALSE]
\* JSON.parse(cleaned) throws a SyntaxError (line 206).
JSONparseThrows(cleaned) == cleaned.close \/ cleaned.body.kind = "invalid"
\* The catch block (lines 213-221): text.substring throws on a non-string.
ParseCatch(t) ==
    IF t \in NonStrings THEN Throws(Err("TypeError"))
    ELSE Returns([status |-> "reject", remark |-> "AI response parsing failed"])
\* parseAIResponse(text) (lines 199-222).
parseAIResponse(t) ==
    IF t \in NonStrings THEN ParseCatch(t)
    ELSE LET cleaned == Cleaned(t)
             result == cleaned.body
         IN  IF JSONparseThrows(cleaned) THEN ParseCatch(t)
             ELSE IF result.kind = "null" THEN ParseCatch(t)
             ELSE Returns(
                    [status |-> IF result.status \in {"absent", "empty"}
                                THEN "reject" ELSE result.status,
                     remark |-> IF result.remark = "absent"
                                THEN "Unable to determine" ELSE "given"])

\* ------------------------------------------------------------- state
VARIABLES
    \* fields of the VerificationScheduler singleton (constructor, lines 74-102)
    cronJob,          \* Null, or the schedule the active trigger was created with
    cronTasks,        \* node-cron tasks created by cron.schedule and not stopped
    isRunning,
    shouldStop,
    config,
    currentRun,       \* Null before the first run, else the run object
    runs,             \* history of run summaries
    logs,             \* rolling log buffer
    studentResults,   \* result cache: applnID -> SubjectResult or Null
    \* the run function that is executing (runBatch or verifySingleStudent),
    \* suspended at an await
    pc,               \* the await it is suspended at; "idle" when none executes
    kind,             \* "batch", "single" or "none"
    students,         \* runBatch: the subject list being iterated
    idx,              \* runBatch: index of the current subject
    studentResult,    \* processStudent: the SubjectResult under construction
    chunks, ci,       \* processStudent: the chunks and the index of the current one
    tasks,            \* the verifyDocument promises of the current chunk
    statusUpdates,    \* processStudent: write-back entries collected so far
    attempt,          \* withRetry of the pending list / write-back call: attempt
    lastError,        \* withRetry of the pending list / write-back call: lastError
    \* bookkeeping of the model
    activeRuns,       \* runs that passed the isRunning check and did not call finishRun
    nextId,           \* next run id (Date.now() is strictly increasing here)
    ret,              \* what the latest API call gave its caller
    configUpdates,    \* updateConfig calls made
    \* withRetry applied to an operation on its own
    script,           \* the outcome of the operation at its 1st, 2nd, ... invocation
    calls,            \* invocations of the operation so far
    thrown,           \* what withRetry threw to its caller, Null if nothing
    \* the log buffer on its own
    inserted,         \* every entry handed to log, in call order
    \* DocumentVerificationService.parseAIResponse on its own
    text,             \* the response text of the latest call
    parsed            \* what that call returned or threw, Null before the first

vars == <<cronJob, cronTasks, isRunning, shouldStop, config, currentRun, runs, logs,
          studentResults, pc, kind, students, idx, studentResult, chunks, ci,
          tasks, statusUpdates, attempt, lastError, activeRuns, nextId, ret,
          configUpdates, script, calls, thrown, inserted, text, parsed>>

\* The current state as one record, and the state a slice of code leaves.
State ==
    [cronJob |-> cronJob, cronTasks |-> cronTasks, isRunning |-> isRunning,
     shouldStop |-> shouldStop,
     config |-> config, currentRun |-> currentRun, runs |-> runs, logs |-> logs,
     studentResults |-> studentResults, pc |-> pc, kind |-> kind,
     students |-> students, idx |-> idx, studentResult |-> studentResult,
     chunks |-> chunks, ci |-> ci, tasks |-> tasks,
     statusUpdates |-> statusUpdates, attempt |-> attempt,
     lastError |-> lastError, activeRuns |-> activeRuns, nextId |-> nextId,
     ret |-> ret, configUpdates |-> configUpdates, script |-> script,
     calls |-> calls, thrown |-> thrown, inserted |-> inserted,
     text |-> text, parsed |-> parsed]

Becomes(s) ==
    /\ cronJob' = s.cronJob
    /\ cronTasks' = s.cronTasks
    /\ isRunning' = s.isRunning
    /\ shouldStop' = s.shouldStop
    /\ config' = s.config
    /\ currentRun' = s.currentRun
    /\ runs' = s.runs
    /\ logs' = s.logs
    /\ studentResults' = s.studentResults
    /\ pc' = s.pc
    /\ kind' = s.kind
    /\ students' = s.students
    /\ idx' = s.idx
    /\ studentResult' = s.studentResult
    /\ chunks' = s.chunks
    /\ ci' = s.ci
    /\ tasks' = s.tasks
    /\ statusUpdates' = s.statusUpdates
    /\ attempt' = s.attempt
    /\ lastError' = s.lastError
    /\ activeRuns' = s.activeRuns
    /\ nextId' = s.nextId
    /\ ret' = s.ret
    /\ configUpdates' = s.configUpdates
    /\ script' = s.script
    /\ calls' = s.calls
    /\ thrown' = s.thrown
    /\ inserted' = s.inserted
    /\ text' = s.text
    /\ parsed' = s.parsed

\* ------------------------------------------------------------ logging
\* log(level, message): push, then keep the last maxLogs entries.
logKeepsOldest(s, level, message) ==
    LET pushed == Append(s.logs, [level |-> level, message |-> message])
    IN  [s EXCEPT !.logs = IF Len(pushed) > maxLogs
                           THEN SubSeq(pushed, 1, maxLogs) ELSE pushed]
log(s, level, message) ==
    LET pushed == Append(s.logs, [level |-> level, message |-> message])
    IN  [s EXCEPT !.logs = IF Len(pushed) > maxLogs
                           THEN SliceFrom(pushed, -maxLogs) ELSE pushed]

\* ---------------------------------------------------------- withRetry
\* The message tests of the catch block (line 136).
IsNonRetryable(err) == err.message \in {"429", "quota", "401", "403"}
\* The for-loop condition (line 129), read from the config at each iteration.
LoopConditionOffByOne(a, cfg) == a < cfg.retryAttempts
LoopCondition(a, cfg) == a <= cfg.retryAttempts
\* The back-off test of the catch block (line 140).
ShouldBackoff(a, cfg) == a < cfg.retryAttempts

\* ------------------------------------------------------ end of a run
\* The locals of a run function that returned or threw.
Returned(s) ==
    [s EXCEPT !.kind = "none", !.students = <<>>, !.idx = 0,
              !.studentResult = Null, !.chunks = <<>>, !.ci = 0, !.tasks = <<>>,
              !.statusUpdates = <<>>, !.attempt = 0, !.lastError = Undefined]

\* finishRun (lines 528-536).
finishRunKeepsOldest(s) ==
    LET pushed == Append(s.runs, [s.currentRun EXCEPT !.students = Undefined])
    IN  [s EXCEPT !.isRunning = FALSE,
                  !.activeRuns = s.activeRuns - 1,
                  !.runs = IF s.currentRun # Null
                           THEN (IF Len(pushed) > maxRuns
                                 THEN SubSeq(pushed, 1, maxRuns) ELSE pushed)
                           ELSE s.runs]
finishRun(s) ==
    LET pushed == Append(s.runs, [s.currentRun EXCEPT !.students = Undefined])
    IN  [s EXCEPT !.isRunning = FALSE,
                  !.activeRuns = s.activeRuns - 1,
                  !.runs = IF s.currentRun # Null
                           THEN (IF Len(pushed) > maxRuns
                                 THEN SliceFrom(pushed, -maxRuns) ELSE pushed)
                           ELSE s.runs]

\* The run function rejects without reaching finishRun: an exception left
\* runBatch's catch block, or verifySingleStudent, which has none.
Rejected(s) == [Returned(s) EXCEPT !.pc = "rejected"]

\* chunkArray with size <= 0 never leaves its loop: the event loop is blocked
\* (until the process runs out of memory).
Hung(s) == [s EXCEPT !.pc = "hung"]

\* runBatch after its try/catch (lines 516-525).
BatchFinished(s) ==
    [Returned(finishRun(log(s, "info", "BATCH FINISHED"))) EXCEPT !.pc = "idle"]

\* runBatch's catch block (lines 511-514): err.message of an undefined err
\* throws out of the catch block.
RunBatchCatchNoStatus(s, err) ==
    IF err = Undefined THEN Rejected(s)
    ELSE BatchFinished(log(s, "error", "Batch run failed"))
RunBatchCatch(s, err) ==
    IF err = Undefined THEN Rejected(s)
    ELSE BatchFinished(
            [log(s, "error", "Batch run failed") EXCEPT !.currentRun.status = "error"])

\* ---------------------------------------------------- runBatch's loop
RECURSIVE LoopHead(_)

\* Aggregation of one SubjectResult into the run (lines 487-499).
AggregateDropsSkipped(run, result) ==
    LET r == [run EXCEPT !.students = Append(run.students, result),
                         !.processed = run.processed + 1]
    IN  IF result.status \in {"completed", "partial"}
        THEN [r EXCEPT !.completed = r.completed + 1,
                       !.totalDocsVerified = r.totalDocsVerified + result.totalDocs,
                       !.totalApproved = r.totalApproved + result.approved,
                       !.totalRejected = r.totalRejected + result.rejected]
        ELSE IF result.status = "skipped" THEN r
        ELSE [r EXCEPT !.errors = r.errors + 1]
AggregatePrepends(run, result) ==
    LET r == [run EXCEPT !.students = <<result>> \o run.students,
                         !.processed = run.processed + 1]
    IN  IF result.status \in {"completed", "partial"}
        THEN [r EXCEPT !.completed = r.completed + 1,
                       !.totalDocsVerified = r.totalDocsVerified + result.totalDocs,
                       !.totalApproved = r.totalApproved + result.approved,
                       !.totalRejected = r.totalRejected + result.rejected]
        ELSE IF result.status = "skipped"
        THEN [r EXCEPT !.skipped = r.skipped + 1]
        ELSE [r EXCEPT !.errors = r.errors + 1]
Aggregate(run, result) ==
    LET r == [run EXCEPT !.students = Append(run.students, result),
                         !.processed = run.processed + 1]
    IN  IF result.status \in {"completed", "partial"}
        THEN [r EXCEPT !.completed = r.completed + 1,
                       !.totalDocsVerified = r.totalDocsVerified + result.totalDocs,
                       !.totalApproved = r.totalApproved + result.approved,
                       !.totalRejected = r.totalRejected + result.rejected]
        ELSE IF result.status = "skipped"
        THEN [r EXCEPT !.skipped = r.skipped + 1]
        ELSE [r EXCEPT !.errors = r.errors + 1]

\* The locals of processStudent once it returned.
StudentReturned(s) ==
    [s EXCEPT !.studentResult = Null, !.chunks = <<>>, !.ci = 0, !.tasks = <<>>,
              !.statusUpdates = <<>>, !.attempt = 0, !.lastError = Undefined]

\* runBatch after `await this.processStudent(...)` (lines 486-505).
AfterStudentBatch(s, result) ==
    LET s1 == [StudentReturned(s) EXCEPT !.currentRun = Aggregate(s.currentRun, result)]
    IN  IF ~s1.shouldStop
        THEN [s1 EXCEPT !.pc = "studentDelay"]
        ELSE LoopHead([s1 EXCEPT !.idx = s1.idx + 1])

\* verifySingleStudent after `await this.processStudent(...)` (lines 566-585).
AfterStudentSingle(s, result) ==
    LET r0 == [s.currentRun EXCEPT !.students = Append(s.currentRun.students, result),
                                   !.processed = 1]
        r1 == IF result.status \in {"completed", "partial"}
              THEN [r0 EXCEPT !.completed = 1,
                              !.totalDocsVerified = result.totalDocs,
                              !.totalApproved = result.approved,
                              !.totalRejected = result.rejected]
              ELSE IF result.status = "skipped"
              THEN [r0 EXCEPT !.skipped = 1]
              ELSE [r0 EXCEPT !.errors = 1]
        s1 == [s EXCEPT !.currentRun = [r1 EXCEPT !.status = "completed"]]
    IN  [Returned(finishRun(s1)) EXCEPT !.pc = "idle"]

\* processStudent returns `result` to the run function that awaits it.
ProcessStudentReturns(s, result) ==
    IF s.kind = "batch" THEN AfterStudentBatch(s, result)
    ELSE AfterStudentSingle(s, result)

\* processStudent throws: runBatch catches it, verifySingleStudent does not.
ProcessStudentThrows(s, err) ==
    IF s.kind = "batch" THEN RunBatchCatch(s, err) ELSE Rejected(s)

\* --------------------------------------------------- processStudent
\* The end of processStudent (lines 411-416).
StudentEndKeepsFirst(s) ==
    LET result == s.studentResult
    IN  ProcessStudentReturns(
            IF s.studentResults[result.applnID] = Null
            THEN [s EXCEPT !.studentResults[result.applnID] = result]
            ELSE s, result)
StudentEnd(s) ==
    LET result == s.studentResult
    IN  ProcessStudentReturns(
            [s EXCEPT !.studentResults[result.applnID] = result], result)

\* processStudent's catch block (lines 406-409): err.message of an undefined
\* err throws a TypeError out of processStudent.
StudentCatchIsRunFatal(s, err) ==
    ProcessStudentThrows(log(s, "error", "Processing failed"), err)
StudentCatch(s, err) ==
    IF err = Undefined THEN ProcessStudentThrows(s, Err("TypeError"))
    ELSE StudentEnd([log(s, "error", "Processing failed")
                        EXCEPT !.studentResult.status = "error"])

\* Line 404.
StudentFinish(s) ==
    StudentEnd([s EXCEPT !.studentResult.status =
                    IF s.studentResult.errors > 0 THEN "partial" ELSE "completed"])

\* The catch block around the write-back (lines 399-401), inside the outer try.
UpdateCatchFailsSubject(s, err) ==
    StudentCatch(log(s, "error", "Failed to update status"), Err("TypeError"))
UpdateCatch(s, err) ==
    IF err = Undefined THEN StudentCatch(s, Err("TypeError"))
    ELSE StudentFinish(log(s, "error", "Failed to update status"))

\* After the chunk loop: the write-back (lines 391-404).
AfterChunks(s) ==
    IF Len(s.statusUpdates) > 0 /\ ~s.shouldStop
    THEN IF LoopCondition(1, s.config)
         THEN [s EXCEPT !.pc = "update", !.attempt = 1, !.lastError = Undefined,
                        !.tasks = <<>>]
         ELSE UpdateCatch(s, Undefined)
    ELSE StudentFinish(s)

\* The test of verifyDocument (line 158): no file uploaded.
HasNoFile(doc) == ~Truthy(doc.file_url) \/ ~Truthy(Trim(doc.file_url))
\* The filter of processStudent (line 237) and is_uploaded (line 225).
IsUploaded(doc) == Truthy(doc.file_url) /\ Trim(doc.file_url) # Str(<<>>)

RECURSIVE FilterUploaded(_)
FilterUploaded(docs) ==
    IF docs = <<>> THEN <<>>
    ELSE (IF IsUploaded(Head(docs)) THEN <<Head(docs)>> ELSE <<>>)
         \o FilterUploaded(Tail(docs))
\* Line 242.
RECURSIVE FilterNotVerified(_)
FilterNotVerified(docs) ==
    IF docs = <<>> THEN <<>>
    ELSE (IF Head(docs).verify_status # "2" THEN <<Head(docs)>> ELSE <<>>)
         \o FilterNotVerified(Tail(docs))

\* chunkArray (lines 718-724), for size >= 1; with size <= 0 and a non-empty
\* arr the loop never ends.
RECURSIVE ChunksFrom(_, _, _)
ChunksFrom(arr, i, size) ==
    IF i < Len(arr)
    THEN <<Slice(arr, i, i + size)>> \o ChunksFrom(arr, i + size, size)
    ELSE <<>>
chunkArrayTerminates(arr, size) == Len(arr) = 0 \/ size >= 1
chunkArrayOneMore(arr, size) == ChunksFrom(arr, 0, size + 1)
chunkArray(arr, size) == ChunksFrom(arr, 0, size)

\* allDocuments.find(d => d.document_type_id === id), then the annotation.
RECURSIVE FindIndex(_, _, _)
FindIndex(all, id, i) ==
    IF i > Len(all) THEN 0
    ELSE IF all[i].document_type_id = id THEN i
    ELSE FindIndex(all, id, i + 1)
Annotate(all, id, aiStatus) ==
    LET i == FindIndex(all, id, 1)
    IN  IF i = 0 THEN all ELSE [all EXCEPT ![i].ai_status = aiStatus]

\* A verifyDocument promise of the current chunk.
Task(doc, state, a, result) ==
    [doc |-> doc, state |-> state, attempt |-> a, result |-> result]
Settled(task) == task.state \in {"fulfilled", "rejected"}
AllSettled(ts) == \A i \in 1..Len(ts) : Settled(ts[i])

\* The merge of one settled promise into the SubjectResult (lines 270-383).
MergeOne(s, task) ==
    LET id == task.doc.document_type_id
        sr == s.studentResult
    IN  IF task.state = "fulfilled" /\ task.result = "skip"
        THEN log([s EXCEPT !.studentResult =
                     [sr EXCEPT !.skipped = sr.skipped + 1,
                                !.documents = Append(sr.documents,
                                    [document_type_id |-> id, ai_status |-> "skipped"]),
                                !.allDocuments = Annotate(sr.allDocuments, id, "skipped")]],
                 "info", "Skipped (not uploaded)")
        ELSE IF task.state = "fulfilled"
        THEN LET aiStatus == IF task.result = "approve" THEN "Verified" ELSE "reject"
             IN  log([s EXCEPT
                        !.statusUpdates = Append(s.statusUpdates,
                            [document_type_id |-> id, doc_ai_status |-> aiStatus]),
                        !.studentResult =
                            [sr EXCEPT
                                !.documents = Append(sr.documents,
                                    [document_type_id |-> id, ai_status |-> aiStatus]),
                                !.allDocuments = Annotate(sr.allDocuments, id, aiStatus),
                                !.approved = IF aiStatus = "Verified"
                                             THEN sr.approved + 1 ELSE sr.approved,
                                !.rejected = IF aiStatus = "Verified"
                                             THEN sr.rejected ELSE sr.rejected + 1]],
                     "info", aiStatus)
        ELSE log([s EXCEPT
                    !.statusUpdates = Append(s.statusUpdates,
                        [document_type_id |-> id, doc_ai_status |-> "error"]),
                    !.studentResult =
                        [sr EXCEPT
                            !.errors = sr.errors + 1,
                            !.documents = Append(sr.documents,
                                [document_type_id |-> id, ai_status |-> "error"]),
                            !.allDocuments = Annotate(sr.allDocuments, id, "error")]],
                 "error", "Document error")

RECURSIVE MergeFrom(_, _)
MergeFrom(s, i) ==
    IF i > Len(s.tasks) THEN s ELSE MergeFrom(MergeOne(s, s.tasks[i]), i + 1)

\* Promise.allSettled resolved: merge, then the delay before the next chunk
\* (lines 270-389), or the end of the loop.
ChunkSettledAlwaysDelays(s) ==
    [[MergeFrom(s, 1) EXCEPT !.tasks = <<>>] EXCEPT !.pc = "docDelay"]
ChunkSettled(s) ==
    LET merged == [MergeFrom(s, 1) EXCEPT !.tasks = <<>>]
    IN  IF s.ci < Len(s.chunks)
        THEN [merged EXCEPT !.pc = "docDelay"]
        ELSE AfterChunks(merged)

\* verifyDocument(doc) up to its first await (lines 156-180).
verifyDocument(s, doc) ==
    IF HasNoFile(doc)
    THEN log([s EXCEPT !.tasks = Append(s.tasks, Task(doc, "fulfilled", 0, "skip"))],
             "info", "No file uploaded")
    ELSE IF LoopCondition(1, s.config)
    THEN [s EXCEPT !.tasks = Append(s.tasks, Task(doc, "download", 1, Undefined))]
    ELSE [s EXCEPT !.tasks = Append(s.tasks, Task(doc, "rejected", 0, Undefined))]

RECURSIVE StartTasks(_, _, _)
StartTasks(s, chunk, i) ==
    IF i > Len(chunk) THEN s ELSE StartTasks(verifyDocument(s, chunk[i]), chunk, i + 1)

\* One iteration of `for (const chunk of chunks)` up to its await (lines 260-268).
ChunkLoop(s) ==
    IF s.ci > Len(s.chunks) THEN AfterChunks(s)
    ELSE IF s.shouldStop THEN AfterChunks(log(s, "info", "Stopping mid-student"))
    ELSE LET started == [StartTasks([s EXCEPT !.tasks = <<>>], s.chunks[s.ci], 1)
                            EXCEPT !.pc = "chunk"]
         IN  IF AllSettled(started.tasks) THEN ChunkSettled(started) ELSE started

\* A fresh SubjectResult (lines 185-199).
NewStudentResult(applnID) ==
    [applnID |-> applnID, status |-> "processing", totalDocs |-> 0, uploaded |-> 0,
     approved |-> 0, rejected |-> 0, errors |-> 0, skipped |-> 0,
     allDocuments |-> <<>>, documents |-> <<>>]

\* An entry of allDocuments (lines 219-235).  ai_status is null until the
\* entry is annotated; null is written "null" here, which no annotation equals.
AllDocEntry(doc) ==
    [document_type_id |-> doc.document_type_id,
     is_uploaded |-> IsUploaded(doc),
     file_url |-> IF Truthy(doc.file_url) THEN doc.file_url ELSE Null,
     verify_status |-> doc.verify_status,
     ai_status |-> "null"]

\* processStudent once the document list arrived (lines 208-258).
DocListReceived(s, resp) ==
    IF resp = NoData
    THEN LET result == [s.studentResult EXCEPT !.status = "skipped"]
         IN  ProcessStudentReturns(
                [log(s, "warn", "No document list returned")
                    EXCEPT !.studentResult = result,
                           !.studentResults[result.applnID] = result], result)
    ELSE LET allDocs == resp.data
             uploaded == FilterUploaded(allDocs)
             uploadedDocs == IF s.config.skipAlreadyVerified
                             THEN FilterNotVerified(uploaded) ELSE uploaded
             result == [s.studentResult EXCEPT
                            !.allDocuments =
                                [i \in 1..Len(allDocs) |-> AllDocEntry(allDocs[i])],
                            !.uploaded = Len(uploaded),
                            !.totalDocs = Len(uploadedDocs)]
         IN  IF Len(uploadedDocs) = 0
             THEN LET skipped == [result EXCEPT !.status = "skipped"]
                  IN  ProcessStudentReturns(
                         [log(s, "info", "No documents to verify")
                             EXCEPT !.studentResult = skipped,
                                    !.studentResults[skipped.applnID] = skipped],
                         skipped)
             ELSE IF ~chunkArrayTerminates(uploadedDocs, s.config.concurrency)
             THEN Hung([s EXCEPT !.studentResult = result])
             ELSE ChunkLoop([s EXCEPT
                    !.studentResult = result,
                    !.statusUpdates = <<>>,
                    !.chunks = chunkArray(uploadedDocs, s.config.concurrency),
                    !.ci = 1, !.attempt = 0, !.lastError = Undefined])

\* processStudent up to its first await (lines 184-206).
processStudent(s, applnID) ==
    LET s1 == [s EXCEPT !.studentResult = NewStudentResult(applnID)]
    IN  IF LoopCondition(1, s1.config)
        THEN [s1 EXCEPT !.pc = "fetchDocs", !.attempt = 1, !.lastError = Undefined]
        ELSE StudentCatch(s1, Undefined)

\* One iteration of `for (const student of students)` up to its await, or
\* the end of the loop (lines 470-486, 507-509).
LoopHeadIgnoresStop(s) ==
    IF s.idx > Len(s.students)
    THEN BatchFinished([s EXCEPT !.currentRun.status =
                            IF s.currentRun.status = "running" THEN "completed"
                            ELSE s.currentRun.status])
    ELSE IF s.students[s.idx] = NoId THEN LoopHead([s EXCEPT !.idx = s.idx + 1])
    ELSE processStudent(log(s, "info", "Processing student"), s.students[s.idx])
LoopHead(s) ==
    IF s.idx > Len(s.students)
    THEN BatchFinished([s EXCEPT !.currentRun.status =
                            IF s.currentRun.status = "running" THEN "completed"
                            ELSE s.currentRun.status])
    ELSE IF s.shouldStop
    THEN BatchFinished([log(s, "info", "Batch stopped by user")
                            EXCEPT !.currentRun.status = "stopped"])
    ELSE IF s.students[s.idx] = NoId THEN LoopHead([s EXCEPT !.idx = s.idx + 1])
    ELSE processStudent(log(s, "info", "Processing student"), s.students[s.idx])

\* runBatch once the subject list arrived (lines 455-468).
StudentListReceived(s, resp) ==
    IF resp = NoData
    THEN [Returned(finishRun([log(s, "error", "Failed to fetch student list")
                                 EXCEPT !.currentRun.status = "error"]))
            EXCEPT !.pc = "idle"]
    ELSE LoopHead([log([s EXCEPT !.currentRun.totalStudents = Len(resp.data)],
                       "info", "Found students")
                    EXCEPT !.students = resp.data, !.idx = 1, !.attempt = 0,
                           !.lastError = Undefined])

\* ------------------------- withRetry around the list and write-back calls
\* The await of the wrapped call, and the await of the back-off sleep.
\* "op" is an operation handed to withRetry on its own, outside a run.
CallSites == {"fetchList", "fetchDocs", "update", "op"}
SleepOf(site) ==
    CASE site = "fetchList" -> "fetchListSleep"
      [] site = "fetchDocs" -> "fetchDocsSleep"
      [] site = "update" -> "updateSleep"
      [] site = "op" -> "opSleep"
SiteOf(sleep) ==
    CASE sleep = "fetchListSleep" -> "fetchList"
      [] sleep = "fetchDocsSleep" -> "fetchDocs"
      [] sleep = "updateSleep" -> "update"
      [] sleep = "opSleep" -> "op"

\* withRetry throws err to the code that awaits it.
RetryThrows(s, site, err) ==
    CASE site = "fetchList" -> RunBatchCatch(s, err)
      [] site = "fetchDocs" -> StudentCatch(s, err)
      [] site = "update" -> UpdateCatch(s, err)
      [] site = "op" -> [s EXCEPT !.pc = "opThrew", !.thrown = err]

\* The end of a loop iteration that did not return or throw (lines 129, 147).
RetryNext(s, site) ==
    IF LoopCondition(s.attempt + 1, s.config)
    THEN [s EXCEPT !.pc = site, !.attempt = s.attempt + 1]
    ELSE RetryThrows(s, site, s.lastError)

\* The catch block of withRetry (lines 132-145).
RetryCatchNoRetry(s, site, err) == RetryThrows([s EXCEPT !.lastError = err], site, err)
RetryCatch(s, site, err) ==
    LET s1 == [s EXCEPT !.lastError = err]
    IN  IF IsNonRetryable(err)
        THEN RetryThrows(log(s1, "error", "non-retryable error"), site, err)
        ELSE IF ShouldBackoff(s1.attempt, s1.config)
        THEN [log(s1, "warn", "retrying") EXCEPT !.pc = SleepOf(site)]
        ELSE RetryNext(s1, site)

\* withRetry(fn, label) up to the first await of fn (lines 127-131).
withRetry(s) ==
    LET s1 == [s EXCEPT !.lastError = Undefined, !.calls = 0, !.thrown = Null]
    IN  IF LoopCondition(1, s1.config)
        THEN [s1 EXCEPT !.pc = "op", !.attempt = 1]
        ELSE RetryThrows(s1, "op", s1.lastError)

\* The same catch block inside the verifyDocument promise i of the chunk.
TaskNext(s, i) ==
    LET task == s.tasks[i]
    IN  IF LoopCondition(task.attempt + 1, s.config)
        THEN [s EXCEPT !.tasks[i] = Task(task.doc, "download", task.attempt + 1, task.result)]
        ELSE [s EXCEPT !.tasks[i] = Task(task.doc, "rejected", task.attempt, task.result)]
TaskCatchGivesUpOnStop(s, i, err) ==
    LET task == s.tasks[i]
        s1 == [s EXCEPT !.tasks[i].result = err]
    IN  IF IsNonRetryable(err) \/ s.shouldStop
        THEN [log(s1, "error", "non-retryable error") EXCEPT !.tasks[i].state = "rejected"]
        ELSE IF ShouldBackoff(task.attempt, s.config)
        THEN [log(s1, "warn", "retrying") EXCEPT !.tasks[i].state = "sleep"]
        ELSE TaskNext(s1, i)
TaskCatch(s, i, err) ==
    LET task == s.tasks[i]
        s1 == [s EXCEPT !.tasks[i].result = err]
    IN  IF IsNonRetryable(err)
        THEN [log(s1, "error", "non-retryable error") EXCEPT !.tasks[i].state = "rejected"]
        ELSE IF ShouldBackoff(task.attempt, s.config)
        THEN [log(s1, "warn", "retrying") EXCEPT !.tasks[i].state = "sleep"]
        ELSE TaskNext(s1, i)

\* A step of a promise of the chunk, then Promise.allSettled if it was the last.
AfterTaskStep(s) == IF AllSettled(s.tasks) THEN ChunkSettled(s) ELSE s

\* ------------------------------------------------------------ API calls
\* A fresh run object (lines 430-444, 548-562).
NewRun(id, totalStudents) ==
    [id |-> id, status |-> "running", totalStudents |-> totalStudents,
     processed |-> 0, completed |-> 0, skipped |-> 0, errors |-> 0,
     totalDocsVerified |-> 0, totalApproved |-> 0, totalRejected |-> 0,
     students |-> <<>>]

\* runBatch past its guard, up to its first await (lines 430-453).
startBatchKeepsStop(s) ==
    LET s1 == log([s EXCEPT !.isRunning = TRUE,
                            !.currentRun = NewRun(s.nextId, 0),
                            !.activeRuns = s.activeRuns + 1,
                            !.nextId = s.nextId + 1,
                            !.kind = "batch", !.ret = "ok"],
                  "info", "BATCH VERIFICATION STARTED")
    IN  IF LoopCondition(1, s1.config)
        THEN [s1 EXCEPT !.pc = "fetchList", !.attempt = 1, !.lastError = Undefined]
        ELSE RunBatchCatch(s1, Undefined)
startBatch(s) ==
    LET s1 == log([s EXCEPT !.isRunning = TRUE, !.shouldStop = FALSE,
                            !.currentRun = NewRun(s.nextId, 0),
                            !.activeRuns = s.activeRuns + 1,
                            !.nextId = s.nextId + 1,
                            !.kind = "batch", !.ret = "ok"],
                  "info", "BATCH VERIFICATION STARTED")
    IN  IF LoopCondition(1, s1.config)
        THEN [s1 EXCEPT !.pc = "fetchList", !.attempt = 1, !.lastError = Undefined]
        ELSE RunBatchCatch(s1, Undefined)

\* runBatch (lines 421-453): the guard (lines 425-428), then the start.
runBatchNoGuard(s) == startBatch(s)
runBatchResetsStop(s) ==
    IF s.isRunning
    THEN [log([s EXCEPT !.shouldStop = FALSE], "warn", "Batch already running, skipping")
            EXCEPT !.ret = "null"]
    ELSE startBatch(s)
runBatch(s) ==
    IF s.isRunning
    THEN [log(s, "warn", "Batch already running, skipping") EXCEPT !.ret = "null"]
    ELSE startBatch(s)

\* The cron callback (lines 602-605); nobody receives what runBatch returns.
cronCallback(s) == [runBatch(log(s, "info", "Cron triggered")) EXCEPT !.ret = s.ret]

\* verifySingleStudent past its guard, up to its first await (lines 548-566).
startSingle(s, applnID) ==
    processStudent(
        log([s EXCEPT !.isRunning = TRUE, !.shouldStop = FALSE,
                      !.currentRun = NewRun(s.nextId, 1),
                      !.activeRuns = s.activeRuns + 1,
                      !.nextId = s.nextId + 1,
                      !.kind = "single", !.ret = "ok"],
            "info", "SINGLE STUDENT VERIFICATION"),
        applnID)

\* verifySingleStudent (lines 540-566): the guard throws before anything else.
verifySingleStudentLogsFirst(s, applnID) ==
    IF s.isRunning
    THEN [log(s, "warn", "Batch is currently running") EXCEPT !.ret = "busy"]
    ELSE startSingle(s, applnID)
verifySingleStudent(s, applnID) ==
    IF s.isRunning THEN [s EXCEPT !.ret = "busy"] ELSE startSingle(s, applnID)

\* startScheduler (lines 590-608).
startSchedulerNoGuard(s) ==
    IF ~cronValidate(s.config.cronSchedule)
    THEN log(s, "error", "Invalid cron schedule")
    ELSE log([s EXCEPT !.cronJob = [schedule |-> s.config.cronSchedule],
                       !.cronTasks = s.cronTasks + 1],
             "info", "Scheduler started")
startScheduler(s) ==
    IF s.cronJob # Null THEN log(s, "warn", "Scheduler already running")
    ELSE IF ~cronValidate(s.config.cronSchedule)
    THEN log(s, "error", "Invalid cron schedule")
    ELSE log([s EXCEPT !.cronJob = [schedule |-> s.config.cronSchedule],
                       !.cronTasks = s.cronTasks + 1],
             "info", "Scheduler started")

\* stopScheduler (lines 610-622).
stopSchedulerAlwaysRaises(s) ==
    LET s1 == IF s.cronJob # Null
              THEN log([s EXCEPT !.cronJob = Null, !.cronTasks = s.cronTasks - 1],
                       "info", "Scheduler stopped")
              ELSE s
    IN  log([s1 EXCEPT !.shouldStop = TRUE], "info", "Stop signal sent")
stopScheduler(s) ==
    LET s1 == IF s.cronJob # Null
              THEN log([s EXCEPT !.cronJob = Null, !.cronTasks = s.cronTasks - 1],
                       "info", "Scheduler stopped")
              ELSE s
    IN  IF s1.isRunning
        THEN log([s1 EXCEPT !.shouldStop = TRUE], "info", "Stop signal sent")
        ELSE s1

\* getRunDetail(runId) (lines 658-663): the current run object if its id
\* matches, else the summary found in the history, else null.
RECURSIVE FindRun(_, _, _)
FindRun(history, runId, i) ==
    IF i > Len(history) THEN Null
    ELSE IF history[i].id = runId THEN history[i]
    ELSE FindRun(history, runId, i + 1)
getRunDetail(s, runId) ==
    IF s.currentRun # Null /\ s.currentRun.id = runId
    THEN s.currentRun
    ELSE FindRun(s.runs, runId, 1)

\* getLogs(limit) (lines 665-667): this.logs.slice(-limit).
getLogs(s, limit) == SliceFrom(s.logs, -limit)

\* updateConfig (lines 673-690); updates is a function from keys to values.
allowed ==
    {"cronSchedule", "concurrency", "retryAttempts", "retryDelayMs",
     "delayBetweenStudentsMs", "delayBetweenDocsMs", "skipAlreadyVerified"}
updateConfigMergesBlindly(s, updates) ==
    LET merged == [k \in DOMAIN s.config |->
                      IF k \in DOMAIN updates THEN updates[k] ELSE s.config[k]]
        s1 == [s EXCEPT !.config = merged]
        s2 == IF "cronSchedule" \in DOMAIN updates /\ s1.cronJob # Null
              THEN startScheduler(stopScheduler(s1)) ELSE s1
    IN  [log(s2, "info", "Configuration updated") EXCEPT !.ret = "ok"]
updateConfig(s, updates) ==
    LET merged == [k \in DOMAIN s.config |->
                      IF k \in allowed /\ k \in DOMAIN updates
                      THEN updates[k] ELSE s.config[k]]
        s1 == [s EXCEPT !.config = merged]
        s2 == IF "cronSchedule" \in DOMAIN updates /\ s1.cronJob # Null
              THEN startScheduler(stopScheduler(s1)) ELSE s1
    IN  [log(s2, "info", "Configuration updated") EXCEPT !.ret = "ok"]

\* --------------------------------------------------------------- Init
DefaultSchedule == "0 */2 * * *"
\* The config the constructor builds from the process environment (lines 82-91).
Config(concurrency, retryAttempts, skipAlreadyVerified) ==
    [cronSchedule |-> DefaultSchedule, concurrency |-> concurrency,
     retryAttempts |-> retryAttempts, skipAlreadyVerified |-> skipAlreadyVerified,
     autoStart |-> FALSE]
AllConfigs ==
    {Config(c, r, v) : c \in 1..MaxConcurrency, r \in 1..MaxRetry, v \in BOOLEAN}

\* The state after construction (lines 74-102), with one of Configs.
InitWith(Configs, Scripts) ==
    /\ cronJob = Null
    /\ cronTasks = 0
    /\ isRunning = FALSE
    /\ shouldStop = FALSE
    /\ config \in Configs
    /\ currentRun = Null
    /\ runs = <<>>
    /\ logs = <<>>
    /\ studentResults = [a \in Students |-> Null]
    /\ pc = "idle"
    /\ kind = "none"
    /\ students = <<>>
    /\ idx = 0
    /\ studentResult = Null
    /\ chunks = <<>>
    /\ ci = 0
    /\ tasks = <<>>
    /\ statusUpdates = <<>>
    /\ attempt = 0
    /\ lastError = Undefined
    /\ activeRuns = 0
    /\ nextId = 1
    /\ ret = "ok"
    /\ configUpdates = 0
    /\ script \in Scripts
    /\ calls = 0
    /\ thrown = Null
    /\ inserted = <<>>
    /\ text = Null
    /\ parsed = Null

\* ------------------------------------------------------------- actions
\* No handler runs while chunkArray spins.
Responsive == pc # "hung"

\* A manual runBatch() call.
RunBatch(maxStarts) ==
    /\ Responsive
    /\ isRunning \/ nextId <= maxStarts
    /\ Becomes(runBatch(State))

\* The trigger fires.
CronTick(maxStarts) ==
    /\ Responsive
    /\ cronTasks > 0
    /\ isRunning \/ nextId <= maxStarts
    /\ Becomes(cronCallback(State))

\* A verifySingleStudent(applnID) call.
VerifySingleStudent(maxStarts, Ids) ==
    /\ Responsive
    /\ isRunning \/ nextId <= maxStarts
    /\ \E applnID \in Ids : Becomes(verifySingleStudent(State, applnID))

StartScheduler ==
    /\ Responsive
    /\ Becomes([startScheduler(State) EXCEPT !.ret = "ok"])

StopScheduler ==
    /\ Responsive
    /\ Becomes([stopScheduler(State) EXCEPT !.ret = "ok"])

\* updateConfig(updates) with one of the update objects U.
UpdateConfig(U) ==
    /\ Responsive
    /\ configUpdates < MaxConfigUpdates
    /\ \E updates \in U :
         Becomes([updateConfig(State, updates) EXCEPT !.configUpdates = configUpdates + 1])

\* getStudentList settles: with a response of Lists, or with an error of Errs.
StudentListReply(Lists, Errs) ==
    /\ pc = "fetchList"
    /\ \/ \E resp \in Lists \cup {NoData} : Becomes(StudentListReceived(State, resp))
       \/ \E e \in Errs : Becomes(RetryCatch(State, "fetchList", Err(e)))

\* getDocumentList settles.
DocListReply(DocLists, Errs) ==
    /\ pc = "fetchDocs"
    /\ \/ \E resp \in DocLists \cup {NoData} : Becomes(DocListReceived(State, resp))
       \/ \E e \in Errs : Becomes(RetryCatch(State, "fetchDocs", Err(e)))

\* updateDocumentStatus settles (lines 394-398).
UpdateReply(Errs) ==
    /\ pc = "update"
    /\ \/ Becomes(StudentFinish(log(State, "info", "Status updated")))
       \/ \E e \in Errs : Becomes(RetryCatch(State, "update", Err(e)))

\* The back-off sleep of withRetry elapsed (line 143).
RetrySleepDone ==
    /\ pc \in {SleepOf(site) : site \in CallSites}
    /\ Becomes(RetryNext(State, SiteOf(pc)))

\* downloadDocument of promise i settles (line 170).
DownloadReply(Errs) ==
    /\ pc = "chunk"
    /\ \E i \in 1..Len(tasks) :
         /\ tasks[i].state = "download"
         /\ \/ Becomes([State EXCEPT !.tasks[i].state = "verify"])
            \/ \E e \in Errs : Becomes(AfterTaskStep(TaskCatch(State, i, Err(e))))

\* verificationService.verify of promise i settles (lines 171-178).
VerifyReply(Statuses, Errs) ==
    /\ pc = "chunk"
    /\ \E i \in 1..Len(tasks) :
         /\ tasks[i].state = "verify"
         /\ \/ \E status \in Statuses :
                 Becomes(AfterTaskStep(
                    [State EXCEPT !.tasks[i].state = "fulfilled",
                                  !.tasks[i].result = status]))
            \/ \E e \in Errs : Becomes(AfterTaskStep(TaskCatch(State, i, Err(e))))

\* The back-off sleep of promise i elapsed.
TaskSleepDone ==
    /\ pc = "chunk"
    /\ \E i \in 1..Len(tasks) :
         /\ tasks[i].state = "sleep"
         /\ Becomes(AfterTaskStep(TaskNext(State, i)))

\* The delay between two chunks elapsed (lines 386-388).
DocDelayDone ==
    /\ pc = "docDelay"
    /\ Becomes(ChunkLoop([State EXCEPT !.ci = ci + 1]))

\* The delay between two subjects elapsed (lines 502-504).
StudentDelayDone ==
    /\ pc = "studentDelay"
    /\ Becomes(LoopHead([State EXCEPT !.idx = idx + 1]))

\* A caller hands an operation to withRetry.
WithRetryCall ==
    /\ pc = "idle"
    /\ calls = 0
    /\ thrown = Null
    /\ Becomes(withRetry(State))

\* The operation settles as the script says (line 131).
OpSettles ==
    /\ pc = "op"
    /\ LET outcome == script[calls + 1]
           s == [State EXCEPT !.calls = calls + 1]
       IN  IF outcome = "ok" THEN Becomes([s EXCEPT !.pc = "opReturned"])
           ELSE Becomes(RetryCatch(s, "op", Err(outcome)))

\* ------------------------------------------------------ specifications
\* Update objects: a schedule, a whitelisted number, a key outside the whitelist.
Updates ==
    {[cronSchedule |-> c] : c \in Schedules \ {DefaultSchedule}}
    \cup {[concurrency |-> 0], [retryAttempts |-> 0], [unknownKey |-> 1]}

\* Errors of the remote calls: one retryable, one not.
Errors == {"timeout", "quota"}

\* The scheduler and its runs.  Every subject has one document, so a subject
\* is one chunk and the delay between chunks never starts.
Init == InitWith({Config(MaxConcurrency, MaxRetry, TRUE)}, {<<>>})

Next ==
    \/ RunBatch(MaxRunStarts)
    \/ CronTick(MaxRunStarts)
    \/ VerifySingleStudent(MaxRunStarts, Students)
    \/ StartScheduler
    \/ StopScheduler
    \/ UpdateConfig(Updates)
    \/ StudentListReply(StudentLists, Errors)
    \/ DocListReply(OneDocLists, Errors)
    \/ UpdateReply(Errors)
    \/ RetrySleepDone
    \/ DownloadReply(Errors)
    \/ VerifyReply(Verdicts, Errors)
    \/ TaskSleepDone
    \/ StudentDelayDone

Spec == Init /\ [][Next]_vars

\* One subject, verified on demand, with every kind of document list and
\* every configuration the environment can set.
InitStudent == InitWith(AllConfigs, {<<>>})

NextStudent ==
    \/ VerifySingleStudent(MaxRunStarts, {"s1"})
    \/ StopScheduler
    \/ DocListReply(AllDocLists, Errors)
    \/ UpdateReply(Errors)
    \/ RetrySleepDone
    \/ DownloadReply(Errors)
    \/ VerifyReply(BackendStatuses, Errors)
    \/ TaskSleepDone
    \/ DocDelayDone

SpecStudent == InitStudent /\ [][NextStudent]_vars

\* withRetry on its own: an operation with a scripted outcome per invocation,
\* under every retryAttempts that updateConfig can leave in the config.
Scripts == [1..MaxRetry -> Outcomes]
InitRetry == InitWith({Config(1, r, TRUE) : r \in 0..MaxRetry}, Scripts)

NextRetry ==
    \/ WithRetryCall
    \/ OpSettles
    \/ RetrySleepDone

SpecRetry == InitRetry /\ [][NextRetry]_vars

\* The log buffer on its own: a caller logs entries of every level.
Levels == {"info", "warn", "error"}
LogCall ==
    /\ Len(inserted) < MaxLogCalls
    /\ \E level \in Levels :
         Becomes([log(State, level, "entry") EXCEPT
                    !.inserted = Append(inserted, [level |-> level, message |-> "entry"])])

NextLog == LogCall

SpecLog == Init /\ [][NextLog]_vars

\* The run history: several short runs one after the other.  The subject
\* list has at most one subject, a subject has no document list, and a
\* remote call fails only with an error that is not retried.
ShortLists == {WithData(<<>>), WithData(<<"s1">>)}
FatalErrors == {"quota"}

NextHistory ==
    \/ RunBatch(MaxHistoryRuns)
    \/ VerifySingleStudent(MaxHistoryRuns, {"s1"})
    \/ StopScheduler
    \/ StudentListReply(ShortLists, FatalErrors)
    \/ DocListReply({}, FatalErrors)
    \/ StudentDelayDone

SpecHistory == Init /\ [][NextHistory]_vars

\* One subject with three documents under concurrency 2 and retryAttempts 3:
\* document 1 fails transiently at its first two tries and is approved at the
\* third, document 2 is rejected at its first try, document 3 has no content.
Uploaded == [file_url |-> Str(<<"u">>), verify_status |-> "0"]
ScenarioDocLists ==
    {WithData(MkDocs(<<Uploaded, Uploaded, [file_url |-> u, verify_status |-> "0"]>>)) :
        u \in FileUrls \ {Str(<<"u">>)}}
InitScenario == InitWith({Config(2, 3, TRUE)}, {<<>>})

ScenarioDocListReply ==
    /\ pc = "fetchDocs"
    /\ \E resp \in ScenarioDocLists : Becomes(DocListReceived(State, resp))

FailsNow(task) == task.doc.document_type_id = 1 /\ task.attempt <= 2

\* downloadDocument of promise i settles: a transient failure may show here.
ScenarioDownloadReply ==
    /\ pc = "chunk"
    /\ \E i \in 1..Len(tasks) :
         /\ tasks[i].state = "download"
         /\ \/ Becomes([State EXCEPT !.tasks[i].state = "verify"])
            \/ /\ FailsNow(tasks[i])
               /\ Becomes(AfterTaskStep(TaskCatch(State, i, Err("timeout"))))

\* verificationService.verify of promise i settles: a transient failure
\* that did not show at the download shows here.
ScenarioVerifyReply ==
    /\ pc = "chunk"
    /\ \E i \in 1..Len(tasks) :
         /\ tasks[i].state = "verify"
         /\ IF FailsNow(tasks[i])
            THEN Becomes(AfterTaskStep(TaskCatch(State, i, Err("timeout"))))
            ELSE Becomes(AfterTaskStep(
                    [State EXCEPT !.tasks[i].state = "fulfilled",
                                  !.tasks[i].result =
                                      IF tasks[i].doc.document_type_id = 1
                                      THEN "approve" ELSE "reject"]))

NextScenario ==
    \/ VerifySingleStudent(MaxRunStarts, {"s1"})
    \/ ScenarioDocListReply
    \/ ScenarioDownloadReply
    \/ ScenarioVerifyReply
    \/ TaskSleepDone
    \/ UpdateReply(Errors)
    \/ RetrySleepDone

SpecScenario == InitScenario /\ [][NextScenario]_vars

\* parseAIResponse on its own, with every response text.
ParseAIResponse ==
    \E t \in Texts :
        Becomes([State EXCEPT !.text = t, !.parsed = parseAIResponse(t)])

NextParse == ParseAIResponse

SpecParse == Init /\ [][NextParse]_vars

\* updateConfig with every shape of update object: any subset of the keys
\* below, among them a config field outside the whitelist and an unknown key.
ConfigKeys ==
    {"cronSchedule", "concurrency", "retryAttempts", "skipAlreadyVerified",
     "autoStart", "unknownKey"}
UpdateObject(keys, schedule, number, flag) ==
    [k \in keys |->
        CASE k = "cronSchedule" -> schedule
          [] k \in {"concurrency", "retryAttempts"} -> number
          [] k \in {"skipAlreadyVerified", "autoStart"} -> flag
          [] OTHER -> 1]
UpdateConfigWith(keys, schedule, number, flag) ==
    /\ Responsive
    /\ configUpdates < MaxConfigUpdates
    /\ Becomes([updateConfig(State, UpdateObject(keys, schedule, number, flag))
                    EXCEPT !.configUpdates = configUpdates + 1])
\* The update objects tried: keys, a new schedule, a number and a flag.
UpdateChoices ==
    (SUBSET ConfigKeys) \X (Schedules \ {DefaultSchedule}) \X {0} \X BOOLEAN
AnyUpdateConfig ==
    \E choice \in UpdateChoices :
        UpdateConfigWith(choice[1], choice[2], choice[3], choice[4])

InitConfig == InitWith({Config(MaxConcurrency, MaxRetry, TRUE)}, {<<>>})

NextConfig ==
    \/ AnyUpdateConfig
    \/ StartScheduler
    \/ StopScheduler

SpecConfig == InitConfig /\ [][NextConfig]_vars

\* ------------------------------------------------------------- claims
\* The last n entries of a buffer.
LastOf(entries, n) ==
    SubSeq(entries, IF Len(entries) > n THEN Len(entries) - n + 1 ELSE 1, Len(entries))
\* A content reference: a file_url with a character that is not whitespace.
HasContent(fileUrl) ==
    /\ fileUrl # Null
    /\ \E i \in 1..Len(fileUrl.chars) : fileUrl.chars[i] \notin Whitespace
\* A SubjectResult that processStudent has finished.
Finalized(result) == result # Null /\ result.status # "processing"
\* The verifyDocument promises of the current chunk that have not settled.
InFlight == {i \in 1..Len(tasks) : ~Settled(tasks[i])}

\* C1. At most one run is executing: between the isRunning check a run
\* passed and its finishRun no other run passes the check, whatever calls
\* and ticks are interleaved.
C1_MutualExclusion == activeRuns = (IF isRunning THEN 1 ELSE 0)
\* A start request arrived while a run was executing and was turned away.
C1_SecondStartRefused == isRunning /\ activeRuns = 1 /\ ret \in {"null", "busy"}

\* C2 as stated. A batch start (runBatch or a tick) while a run is active
\* changes nothing but the log buffer, to which it appends one warn entry.
C2_BusyBatchStartOnlyWarns ==
    (isRunning /\ Responsive) =>
        LET warned == [State EXCEPT
                          !.logs = LastOf(Append(logs, [level |-> "warn",
                                      message |-> "Batch already running, skipping"]),
                                   maxLogs)]
        IN  /\ runBatch(State) = [warned EXCEPT !.ret = "null"]
            /\ cronJob # Null => cronCallback(State) = warned
\* C2 amended. A batch start while a run is active returns null and changes
\* nothing but the log buffer: runBatch appends one warn entry; a tick appends
\* an info entry ("Cron triggered") and then that warn entry.
C2_BusyBatchStartOnlyLogs ==
    (isRunning /\ Responsive) =>
        LET warn == [level |-> "warn", message |-> "Batch already running, skipping"]
            info == [level |-> "info", message |-> "Cron triggered"]
        IN  /\ runBatch(State) =
                   [State EXCEPT !.logs = LastOf(Append(logs, warn), maxLogs),
                                 !.ret = "null"]
            /\ cronJob # Null =>
                   cronCallback(State) =
                       [State EXCEPT !.logs = LastOf(logs \o <<info, warn>>, maxLogs)]
\* A manual runBatch was turned away, then a tick, both during one run.
C2_BusyTickSeen ==
    /\ isRunning
    /\ ret = "null"
    /\ logs = <<[level |-> "info", message |-> "Cron triggered"],
                [level |-> "warn", message |-> "Batch already running, skipping"]>>

\* C3. verifySingleStudent while a run is active throws the busy error and
\* changes no state: currentRun, isRunning, shouldStop, the history, the logs
\* and the result cache stay as they were, and the active run goes on.
C3_BusySingleChangesNothing ==
    (isRunning /\ Responsive) =>
        \A applnID \in Students :
            verifySingleStudent(State, applnID) = [State EXCEPT !.ret = "busy"]
\* A verifySingleStudent call was refused, and the run it met then finalized.
C3_RunOutlivesBusyCall == ret = "busy" /\ ~isRunning /\ Len(runs) = 1

\* C4. Every run is finalized: once the run function has ended (returned or
\* thrown), isRunning is false again.
C4_EndedRunIsFinalized == kind = "none" => ~isRunning

\* C5. approved + rejected + errors + skipped = totalDocs in every finalized
\* SubjectResult, also when the stop flag was raised during the subject.
C5_OutcomesAddUp ==
    \A a \in Students :
        Finalized(studentResults[a]) =>
            LET r == studentResults[a]
            IN  r.approved + r.rejected + r.errors + r.skipped = r.totalDocs

\* C6. A document whose file_url is missing, empty or whitespace-only is
\* never downloaded and never passed to the Verification Backend.
C6_NoContentNeverSent ==
    \A i \in 1..Len(tasks) :
        (tasks[i].state \in {"download", "verify", "sleep"} \/ tasks[i].attempt > 0)
            => HasContent(tasks[i].doc.file_url)
\* A subject with a whitespace-only file_url has another document at the backend.
C6_SentBesideNoContent ==
    /\ pc = "chunk"
    /\ \E i \in 1..Len(tasks) : tasks[i].state = "verify"
    /\ \E j \in 1..Len(studentResult.allDocuments) :
          studentResult.allDocuments[j].file_url = Str(<<" ">>)

\* C7. In a finalized SubjectResult every document with no content
\* reference is annotated 'skipped' in allDocuments and counted in skipped.
C7_NoContentIsSkipped ==
    \A a \in Students :
        Finalized(studentResults[a]) =>
            LET r == studentResults[a]
                none == {i \in 1..Len(r.allDocuments) :
                            ~HasContent(r.allDocuments[i].file_url)}
            IN  /\ \A i \in none : r.allDocuments[i].ai_status = "skipped"
                /\ r.skipped >= Cardinality(none)

\* C8. With skipAlreadyVerified, in a finalized SubjectResult every document
\* that has content and verify_status '2' is annotated 'skipped' in
\* allDocuments and counted in skipped.
C8_VerifiedIsSkipped ==
    config.skipAlreadyVerified =>
        \A a \in Students :
            Finalized(studentResults[a]) =>
                LET r == studentResults[a]
                    done == {i \in 1..Len(r.allDocuments) :
                                /\ HasContent(r.allDocuments[i].file_url)
                                /\ r.allDocuments[i].verify_status = "2"}
                IN  /\ \A i \in done : r.allDocuments[i].ai_status = "skipped"
                    /\ r.skipped >= Cardinality(done)

\* C9. With a concurrency limit C >= 1, at most C verification tasks of a
\* subject (download, backend verify, their retries) are in flight at once.
C9_InFlightWithinLimit ==
    config.concurrency >= 1 => Cardinality(InFlight) <= config.concurrency
\* A subject of two chunks has as many tasks in flight as the limit allows.
C9_LimitReached ==
    pc = "chunk" /\ Len(chunks) = 2 /\ Cardinality(InFlight) = config.concurrency

\* C10. An operation that fails with retryable errors at invocations 1..k,
\* k < retryAttempts, and succeeds at invocation k+1: withRetry does not throw,
\* and when it returns the operation was invoked exactly k+1 times.
C10_RetryThenSuccess ==
    \A k \in 0..(Len(script) - 1) :
        (/\ k < config.retryAttempts
         /\ \A i \in 1..k : script[i] \in TransientMessages
         /\ script[k + 1] = "ok")
        => /\ pc # "opThrew"
           /\ calls <= k + 1
           /\ pc = "opReturned" => calls = k + 1
\* One transient failure, then success at the second invocation.
C10_SucceededAtSecond ==
    pc = "opReturned" /\ calls = 2 /\ script[1] \in TransientMessages

\* The invocations of the scripted operation that withRetry allows.
Tries == 1..config.retryAttempts

\* C11. An operation that fails with a retryable error at every invocation
\* is invoked exactly retryAttempts times; withRetry then throws the error of
\* the last invocation, and throws nothing before.
C11_ExhaustsAllTries ==
    (\A i \in Tries : script[i] \in TransientMessages) =>
        /\ pc # "opReturned"
        /\ calls <= config.retryAttempts
        /\ pc = "opThrew" =>
              /\ calls = config.retryAttempts
              /\ calls >= 1 => thrown = Err(script[calls])
\* Every one of several tries failed and the last error was thrown.
C11_ThrewAfterLastTry ==
    /\ pc = "opThrew"
    /\ config.retryAttempts = MaxRetry
    /\ calls = MaxRetry
    /\ thrown = Err(script[MaxRetry])
    /\ \A i \in 1..MaxRetry : script[i] \in TransientMessages

\* C12. An operation whose first invocation raises a non-retryable error
\* (429, quota, 401, 403 in the message): withRetry throws that error after
\* exactly one invocation and without a back-off sleep, whatever retryAttempts is.
C12_NonRetryableThrowsAtOnce ==
    script[1] \in ErrorMessages \ TransientMessages =>
        /\ pc \notin {"opSleep", "opReturned"}
        /\ pc = "opThrew" => calls = 1 /\ thrown = Err(script[1])

\* C13. The log buffer never holds more than maxLogs entries: it holds the
\* newest maxLogs of the entries inserted, in insertion order, so that after
\* maxLogs + 1 insertions the oldest entry is gone.
C13_LogKeepsNewest == Len(logs) <= maxLogs /\ logs = LastOf(inserted, maxLogs)
\* One entry more than the capacity was inserted; the first, unlike the
\* others, is gone.
C13_OldestEvicted ==
    /\ Len(inserted) = maxLogs + 1
    /\ logs = SubSeq(inserted, 2, maxLogs + 1)
    /\ \A i \in 1..Len(logs) : logs[i] # inserted[1]

\* Runs that have been finalized: started and no longer executing.
FinalizedRuns == (nextId - 1) - activeRuns

C15_ScenarioResult ==
    Finalized(studentResults["s1"]) =>
        LET r == studentResults["s1"]
        IN  /\ r.totalDocs = 2
            /\ r.approved = 1
            /\ r.rejected = 1
            /\ r.skipped = 1
            /\ r.errors = 0
            /\ r.status = "completed"

\* C16. Batch run over n subjects, stop raised after subject k < n completed
\* and before subject k+1 starts (during the delay between subjects): the
\* run starts no further subject, no fetch and no backend call, and finalizes
\* with status stopped and processed = k.
C16_StopBetweenSubjects ==
    [][(pc = "studentDelay" /\ shouldStop /\ idx < Len(students) /\ pc' # pc)
        => /\ pc' = "idle"
           /\ ~isRunning'
           /\ currentRun' = [currentRun EXCEPT !.status = "stopped"]
           /\ studentResults' = studentResults
           /\ runs'[Len(runs')].id = currentRun.id
           /\ runs'[Len(runs')].status = "stopped"
           /\ runs'[Len(runs')].processed = currentRun.processed]_vars
\* The stop flag is up in the delay after a subject, with a subject left.
C16_StopRaisedInDelay == pc = "studentDelay" /\ shouldStop /\ idx < Len(students)

\* The run as r leaves it when the fetch of the subject list has failed for
\* good: finalized with status error, nothing recorded, an error entry logged.
ListFetchFailed(r) ==
    /\ r.pc = "idle"
    /\ ~r.isRunning
    /\ r.currentRun = [currentRun EXCEPT !.status = "error"]
    /\ r.currentRun.students = <<>>
    /\ r.studentResults = studentResults
    /\ r.runs[Len(r.runs)] = [r.currentRun EXCEPT !.students = Undefined]
    /\ \E i \in 1..Len(r.logs) : r.logs[i].level = "error"

\* C17. When the fetch of the subject list fails with a non-retryable error
\* or after the last retry, the run finalizes with status error, records no
\* SubjectResult in the run or in the result cache, and the log buffer holds
\* an error-level entry; a failure before that only schedules the next try.
C17_ListFetchFailure ==
    /\ pc = "fetchList" =>
          \A e \in ErrorMessages :
              LET r == RetryCatch(State, "fetchList", Err(e))
              IN  IF e \in TransientMessages /\ attempt < config.retryAttempts
                  THEN r.pc = "fetchListSleep" /\ r.isRunning /\ r.currentRun = currentRun
                  ELSE ListFetchFailed(r)
    /\ pc = "fetchListSleep" =>
          LET r == RetryNext(State, "fetchList")
          IN  IF attempt < config.retryAttempts
              THEN r.pc = "fetchList" /\ r.isRunning /\ r.currentRun = currentRun
              ELSE ListFetchFailed(r)
\* A batch run ended in the catch block of runBatch after a failed list fetch.
C17_RunEndedInError ==
    /\ pc = "idle"
    /\ currentRun # Null
    /\ currentRun.status = "error"
    /\ currentRun.totalStudents = 0
    /\ Len(runs) = 1
    /\ runs[1].status = "error"
    /\ logs = <<[level |-> "error", message |-> "Batch run failed"],
                [level |-> "info", message |-> "BATCH FINISHED"]>>

\* C18. A run whose chunk checkpoint observed the stop flag, so that the
\* pending documents of the subject were not started, finalizes as stopped:
\* whenever the document list of a subject arrives with a document to verify
\* while the flag is up and the run ends with that subject, the run's
\* terminal status is stopped, for batch and for single-subject runs.
C18_ObservedStopFinalizesStopped ==
    (pc = "fetchDocs" /\ shouldStop) =>
        \A resp \in OneDocLists :
            LET r == DocListReceived(State, resp)
                results == r.currentRun.students
            IN  (r.pc = "idle" /\ results[Len(results)].totalDocs > 0)
                    => r.currentRun.status = "stopped"

\* C19. stopScheduler deactivates the scheduler, so that no further tick
\* fires; it raises the stop flag if a run is active at that moment and leaves
\* the flag unchanged if none is, and touches nothing else of the run.
C19_StopSchedulerEffect ==
    /\ [][StopScheduler =>
            /\ cronJob' = Null
            /\ shouldStop' = (IF isRunning THEN TRUE ELSE shouldStop)
            /\ isRunning' = isRunning
            /\ currentRun' = currentRun
            /\ pc' = pc]_vars
    /\ [](cronJob = Null => ~ENABLED CronTick(MaxRunStarts))
\* An active scheduler was stopped during a run, which raised the stop flag.
C19_StoppedDuringRun ==
    /\ cronJob = Null
    /\ isRunning
    /\ shouldStop
    /\ logs = <<[level |-> "info", message |-> "Scheduler stopped"],
                [level |-> "info", message |-> "Stop signal sent"]>>

\* The per-subject list of a run object is stripped (undefined).  A list and
\* the value undefined are told apart by their printed forms.
IsStripped(run) == ToString(run.students) = ToString(Undefined)

\* C20. getRunDetail(id) returns the full run object, per-subject list
\* included, while the run with that id is active; once that run has been
\* finalized it returns the summary with the per-subject list stripped (or
\* null once evicted), also for the most recently finalized run.
C20_FinalizedRunIsSummary ==
    \A id \in 1..(nextId - 1) :
        LET detail == getRunDetail(State, id)
        IN  IF isRunning /\ currentRun.id = id
            THEN detail = currentRun /\ ~IsStripped(detail)
            ELSE detail = Null \/ IsStripped(detail)

\* Two states that differ at most in the log buffer.
SameButLogs(a, b) == [a EXCEPT !.logs = <<>>] = [b EXCEPT !.logs = <<>>]

\* C21. Start and stop of the scheduler are idempotent: from every state, a
\* second startScheduler right after the first leaves the state of the first,
\* with exactly one live trigger when the schedule is valid, and a second
\* stopScheduler right after the first leaves the state of the first, with
\* no live trigger.
C21_StartStopIdempotent ==
    Responsive =>
        LET started == startScheduler(State)
            stopped == stopScheduler(State)
        IN  /\ SameButLogs(startScheduler(started), started)
            /\ started.cronTasks = IF started.cronJob # Null THEN 1 ELSE 0
            /\ cronValidate(config.cronSchedule) => started.cronJob # Null
            /\ SameButLogs(stopScheduler(stopped), stopped)
            /\ stopped.cronTasks = 0
            /\ stopped.cronJob = Null
\* startScheduler was called twice in a row; one trigger is live.
C21_StartedTwice ==
    /\ cronTasks = 1
    /\ cronJob # Null
    /\ logs = <<[level |-> "info", message |-> "Scheduler started"],
                [level |-> "warn", message |-> "Scheduler already running"]>>

\* What an attempt to activate an invalid schedule must leave untouched.
SchedulerUntouched(r) ==
    /\ r.cronJob = cronJob
    /\ r.cronTasks = cronTasks
    /\ r.config.cronSchedule = config.cronSchedule
    /\ r.shouldStop = shouldStop
    /\ r.isRunning = isRunning
    /\ r.currentRun = currentRun
    /\ r.pc = pc

\* C22. An invalid schedule expression is rejected without side effects:
\* after startScheduler with an invalid stored schedule, and after updateConfig
\* with an invalid cronSchedule, no trigger was created and the scheduler's
\* active state, the stored schedule, the stop flag and the active run are as
\* before the call.
C22_InvalidScheduleRejected ==
    Responsive =>
        /\ ~cronValidate(config.cronSchedule) => SchedulerUntouched(startScheduler(State))
        /\ SchedulerUntouched(updateConfig(State, [cronSchedule |-> InvalidSchedule]))

\* C23. updateConfig with a new valid cronSchedule while the scheduler is
\* active leaves the scheduler active under the new schedule, with one live
\* trigger, and does not affect an executing run: the stop flag, isRunning,
\* the run object and the position of the run are as before the call.
C23_RescheduleKeepsRun ==
    (Responsive /\ cronJob # Null) =>
        \A c \in ValidSchedules \ {config.cronSchedule} :
            LET r == updateConfig(State, [cronSchedule |-> c])
            IN  /\ r.cronJob = [schedule |-> c]
                /\ r.cronTasks = 1
                /\ r.config.cronSchedule = c
                /\ r.shouldStop = shouldStop
                /\ r.isRunning = isRunning
                /\ r.currentRun = currentRun
                /\ r.pc = pc

\* C24. updateConfig changes only whitelisted config fields: after the call
\* with any update object, a whitelisted field present in the update has the
\* update's value, every other config field (autoStart among them) has its
\* previous value, and no key is added to the config.
C24_OnlyWhitelistedFieldsChange ==
    [][\A choice \in UpdateChoices :
            UpdateConfigWith(choice[1], choice[2], choice[3], choice[4]) =>
                LET updates == UpdateObject(choice[1], choice[2], choice[3], choice[4])
                IN  /\ DOMAIN config' = DOMAIN config
                    /\ \A k \in DOMAIN config :
                          config'[k] = IF k \in allowed /\ k \in DOMAIN updates
                                       THEN updates[k] ELSE config[k]]_vars
\* An update changed the concurrency; autoStart kept its value.
C24_ConcurrencyUpdated ==
    /\ configUpdates = 1
    /\ config.concurrency = 0
    /\ config.autoStart = FALSE
    /\ config.cronSchedule = DefaultSchedule

\* A response text that is malformed or unstructured: no string, no JSON,
\* or JSON that is not an object.
Malformed(t) ==
    \/ t \in NonStrings
    \/ JSONparseThrows(Cleaned(t))
    \/ Cleaned(t).body.kind # "object"

\* C25. A malformed or unstructured response is converted to a rejected
\* outcome with a diagnostic remark and never to an exception: for every
\* such text parseAIResponse returns an outcome with status reject.
C25_MalformedBecomesReject ==
    (parsed # Null /\ Malformed(text)) =>
        /\ DOMAIN parsed = {"returns"}
        /\ parsed.returns.status = "reject"
        /\ parsed.returns.remark \in {"AI response parsing failed", "Unable to determine"}

\* The chunks laid end to end.
RECURSIVE Flatten(_)
Flatten(cs) == IF cs = <<>> THEN <<>> ELSE Head(cs) \o Flatten(Tail(cs))
\* The document_type_id of every entry of a list, in order.
IdsOf(docs) == [i \in 1..Len(docs) |-> docs[i].document_type_id]
\* The candidate list of the subject: the uploaded entries of its document
\* list, without the verified ones when skipAlreadyVerified is set.
CandidateIds ==
    IdsOf(SelectSeq(studentResult.allDocuments,
                    LAMBDA d : d.is_uploaded
                               /\ (config.skipAlreadyVerified => d.verify_status # "2")))

\* C26. For a concurrency limit C >= 1 the chunks are consecutive pieces of
\* the candidate list, each non-empty and of at most C entries, and laid end
\* to end they are the candidate list; the tasks in flight are those of the
\* current chunk and the merged outcomes those of the chunks before it, so
\* no task of the next chunk starts before every task of the current one has
\* settled; the delay follows a chunk that has a successor and never the last.
C26_ChunksInOrderWithBarrier ==
    /\ [](pc \in {"chunk", "docDelay"} =>
            /\ IdsOf(Flatten(chunks)) = CandidateIds
            /\ \A j \in 1..Len(chunks) :
                  Len(chunks[j]) >= 1 /\ Len(chunks[j]) <= config.concurrency)
    /\ [](pc = "chunk" =>
            /\ [i \in 1..Len(tasks) |-> tasks[i].doc] = chunks[ci]
            /\ IdsOf(studentResult.documents) = IdsOf(Flatten(SubSeq(chunks, 1, ci - 1))))
    /\ [](pc = "docDelay" =>
            /\ tasks = <<>>
            /\ ci < Len(chunks)
            /\ IdsOf(studentResult.documents) = IdsOf(Flatten(SubSeq(chunks, 1, ci))))
    /\ [][(ci' > ci /\ ci >= 1) => (pc = "docDelay" /\ ci' = ci + 1)]_vars
    /\ [][(pc = "chunk" /\ pc' # "chunk") =>
            ((pc' = "docDelay") <=> (ci < Len(chunks)))]_vars
\* The first of two chunks has settled and the delay before the second runs.
C26_DelayBetweenChunks ==
    /\ pc = "docDelay"
    /\ Len(chunks) = 2
    /\ ci = 1
    /\ Len(studentResult.documents) = 1

\* The state with the stop flag down.
NoStop == [State EXCEPT !.shouldStop = FALSE]

\* C27. Inside a subject the stop flag is looked at only between chunks:
\* with the flag raised, every task of the chunk in flight goes on as it would
\* without the flag (its retries and back-off delays included) until the
\* chunk has settled, the outcomes of that chunk are merged into the
\* SubjectResult, and no task of a later chunk is started.
C27_StopOnlyBetweenChunks ==
    /\ [](pc = "chunk" /\ shouldStop =>
            \A i \in 1..Len(tasks) :
                /\ tasks[i].state \in {"download", "verify"} =>
                      \A e \in ErrorMessages :
                          TaskCatch(State, i, Err(e)).tasks
                              = TaskCatch(NoStop, i, Err(e)).tasks
                /\ tasks[i].state = "sleep" =>
                      TaskNext(State, i).tasks = TaskNext(NoStop, i).tasks)
    /\ [][(pc = "chunk" /\ shouldStop) =>
            IF pc' = "chunk"
            THEN /\ IdsOf([i \in 1..Len(tasks') |-> tasks'[i].doc]) = IdsOf(chunks[ci])
                 /\ studentResult' = studentResult
                 /\ ci' = ci
            ELSE LET result == IF pc' = "docDelay" THEN studentResult'
                               ELSE studentResults'[studentResult.applnID]
                 IN  IdsOf(result.documents) = IdsOf(Flatten(SubSeq(chunks, 1, ci)))]_vars
    /\ [][(pc = "docDelay" /\ shouldStop) =>
            \/ pc' = "docDelay" /\ studentResult' = studentResult
            \/ /\ pc' = "idle"
               /\ tasks' = <<>>
               /\ studentResults'[studentResult.applnID].documents
                     = studentResult.documents]_vars
\* The stop was raised, then a task of the chunk in flight failed, backed off
\* and started its second try.
C27_RetryAfterStop ==
    /\ pc = "chunk"
    /\ shouldStop
    /\ logs = <<[level |-> "info", message |-> "Stop signal sent"],
                [level |-> "warn", message |-> "retrying"]>>
    /\ \E i \in 1..Len(tasks) : tasks[i].state = "download" /\ tasks[i].attempt = 2

\* The entries of a level in the log buffer.
CountLevel(level) == Cardinality({i \in 1..Len(logs) : logs[i].level = level})

\* C28. A withRetry call logs one warn entry per retried attempt, exactly one
\* error entry when it ends in failure after at least one try (non-retryable,
\* or the final failure after retryAttempts tries), and no error entry when
\* it succeeds.
C28_OneErrorLogPerFailedCall ==
    /\ pc = "opReturned" => CountLevel("error") = 0 /\ CountLevel("warn") = calls - 1
    /\ (pc = "opThrew" /\ calls >= 1) =>
          /\ CountLevel("error") = 1
          /\ (\A i \in 1..calls : script[i] \in TransientMessages)
                => CountLevel("warn") = calls - 1

\* C29. For every limit n >= 0, getLogs(n) returns the min(n, buffer size)
\* most recent log entries, oldest first, and never more than n entries.
C29_GetLogsIsBounded ==
    \A n \in 0..MaxLogCalls :
        LET entries == getLogs(State, n)
        IN  /\ Len(entries) <= n
            /\ entries = LastOf(logs, n)

\* C30. The status of a finalized SubjectResult: skipped only when there was
\* nothing to process; completed only when no item errored and, if there
\* were candidate items, some item was processed; partial only when an item
\* errored and an item succeeded; error when every candidate item errored.
C30_SubjectStatusRule ==
    \A a \in Students :
        Finalized(studentResults[a]) =>
            LET r == studentResults[a]
                succeeded == r.approved + r.rejected
            IN  /\ r.status \in {"skipped", "completed", "partial", "error"}
                /\ r.status = "skipped" => r.totalDocs = 0
                /\ r.status = "completed" =>
                      r.errors = 0 /\ (r.totalDocs > 0 => succeeded + r.skipped > 0)
                /\ r.status = "partial" => r.errors > 0 /\ succeeded > 0
                /\ (r.totalDocs > 0 /\ r.errors = r.totalDocs) => r.status = "error"

\* The run as it goes on after a successful write-back of the current subject.
WrittenBack == StudentFinish(log(State, "info", "Status updated"))
\* The state r differs from the one after a successful write-back at most in
\* the log buffer and the retry bookkeeping, and r logged the failure.  The
\* entry is looked for unless the run ended in the same step, whose closing
\* entries fill a buffer of maxLogs entries.
OnlyLoggedFailure(r) ==
    /\ SameButLogs([r EXCEPT !.attempt = 0, !.lastError = Undefined],
                   [WrittenBack EXCEPT !.attempt = 0, !.lastError = Undefined])
    /\ (r.pc = "studentDelay" \/ kind = "single") =>
          \E i \in 1..Len(r.logs) :
              r.logs[i] = [level |-> "error", message |-> "Failed to update status"]

\* C31. A write-back that fails with a non-retryable error or at its last
\* try is logged at error level and changes nothing else: the SubjectResult,
\* the result cache, the run and the position of the run are those of the
\* same execution with a successful write-back.
C31_WriteBackFailureOnlyLogged ==
    /\ pc = "update" =>
          \A e \in ErrorMessages :
              LET r == RetryCatch(State, "update", Err(e))
              IN  IF e \in TransientMessages /\ attempt < config.retryAttempts
                  THEN r.pc = "updateSleep" /\ r.studentResult = studentResult
                  ELSE OnlyLoggedFailure(r)
    /\ pc = "updateSleep" =>
          LET r == RetryNext(State, "update")
          IN  IF attempt < config.retryAttempts
              THEN r.pc = "update" /\ r.studentResult = studentResult
              ELSE OnlyLoggedFailure(r)

\* A batch run goes on to its next subject after a failed write-back.
C31_WriteBackFailed ==
    /\ pc = "studentDelay"
    /\ currentRun.completed = 1
    /\ currentRun.status = "running"
    /\ Len(logs) >= 1
    /\ logs[Len(logs)] = [level |-> "error", message |-> "Failed to update status"]

\* The batch run as r leaves it when the fetch of the current subject's
\* document list has failed for good: the subject is recorded with status
\* error and counted in errors, nothing was sent for it, and the run goes on.
SubjectFailedOnly(r) ==
    LET a == studentResult.applnID
        result == r.studentResults[a]
        run == r.currentRun
    IN  /\ result # Null
        /\ result.status = "error"
        /\ result.totalDocs = 0
        /\ result.documents = <<>>
        /\ r.tasks = <<>>
        /\ r.pc \notin {"chunk", "update", "rejected"}
        /\ run.students = Append(currentRun.students, result)
        /\ run.errors = currentRun.errors + 1
        /\ run.processed = currentRun.processed + 1
        /\ run.completed = currentRun.completed
        /\ run.status # "error"
        /\ ~shouldStop => (r.pc = "studentDelay" /\ r.isRunning /\ run.status = "running")

\* C32. In a batch run a failed fetch of one subject's document list
\* (non-retryable, or at the last try) is fatal for that subject only: its
\* result has status error and is counted in the run's errors, no backend
\* call or write-back is made for it, and the run goes on with the next
\* subject and can still finalize as completed.
C32_DocListFailureIsSubjectFatal ==
    /\ (pc = "fetchDocs" /\ kind = "batch") =>
          \A e \in ErrorMessages :
              LET r == RetryCatch(State, "fetchDocs", Err(e))
              IN  IF e \in TransientMessages /\ attempt < config.retryAttempts
                  THEN r.pc = "fetchDocsSleep" /\ r.currentRun = currentRun
                  ELSE SubjectFailedOnly(r)
    /\ (pc = "fetchDocsSleep" /\ kind = "batch") =>
          LET r == RetryNext(State, "fetchDocs")
          IN  IF attempt < config.retryAttempts
              THEN r.pc = "fetchDocs" /\ r.currentRun = currentRun
              ELSE SubjectFailedOnly(r)
\* A batch run finalized as completed with a subject whose fetch had failed.
C32_CompletedWithFailedSubject ==
    /\ pc = "idle"
    /\ kind = "none"
    /\ currentRun # Null
    /\ currentRun.status = "completed"
    /\ currentRun.totalStudents = 2
    /\ currentRun.errors = 1
    /\ currentRun.completed = 1
    /\ currentRun.students[1].status = "error"


\* C33: the result cache is last-write-wins per subject.  Whenever
\* processStudent returns for a subject (its SubjectResult is appended to the
\* run), the cache entry of that subject is exactly the SubjectResult just
\* returned, whatever the entry held before, and the entries of the other
\* subjects are unchanged.
StudentReturns ==
    /\ studentResult # Null
    /\ currentRun # Null
    /\ currentRun' # Null
    /\ Len(currentRun'.students) = Len(currentRun.students) + 1
C33_CacheLastWriteWins ==
    [][StudentReturns =>
        LET result == currentRun'.students[Len(currentRun'.students)]
        IN  /\ result.applnID = studentResult.applnID
            /\ Finalized(result)
            /\ studentResults' = [studentResults EXCEPT ![result.applnID] = result]]_vars

\* A run processed the same subject twice with different outcomes and the
\* cache holds the second one.
C33_EntryReplaced ==
    /\ currentRun # Null
    /\ Len(currentRun.students) = 2
    /\ currentRun.students[1].applnID = "s1"
    /\ currentRun.students[2].applnID = "s1"
    /\ currentRun.students[1].status = "completed"
    /\ currentRun.students[2].status = "error"
    /\ studentResults["s1"] = currentRun.students[2]


\* The entries of a subject list that name a subject, in order.
Named(list) == SelectSeq(list, LAMBDA e : e # NoId)
\* The subjects of the SubjectResults of a run, in order.
ResultIds(run) == [i \in 1..Len(run.students) |-> run.students[i].applnID]
\* The program points inside processStudent.
InsideSubject == {"fetchDocs", "fetchDocsSleep", "chunk", "docDelay",
                  "update", "updateSleep", "hung"}

\* C34. A batch run processes the subjects one at a time in the order of the
\* returned list: while subject i is being processed (its document list
\* fetch, its backend calls, its write-back) the run holds the finalized
\* SubjectResults of exactly the named entries before i, in list order, and
\* none of a later entry; between two subjects it holds those of the entries
\* up to i.
C34_SubjectsInListOrder ==
    (kind = "batch" /\ idx >= 1) =>
        /\ \A i \in 1..Len(currentRun.students) : Finalized(currentRun.students[i])
        /\ pc \in InsideSubject <=> studentResult # Null
        /\ studentResult # Null =>
              /\ studentResult.applnID = students[idx]
              /\ ResultIds(currentRun) = Named(SubSeq(students, 1, idx - 1))
        /\ studentResult = Null =>
              /\ pc = "studentDelay"
              /\ ResultIds(currentRun) = Named(SubSeq(students, 1, idx))
\* The second subject of the list is being verified and the run holds the
\* result of the first.
C34_SecondSubjectInProgress ==
    /\ kind = "batch"
    /\ students = <<"s1", "s2">>
    /\ idx = 2
    /\ pc = "chunk"
    /\ ResultIds(currentRun) = <<"s1">>
    /\ currentRun.students[1].status = "completed"


\* C35 as stated. A configuration change made while a withRetry loop is
\* waiting for its call does not change what the loop does when the call
\* fails: it backs off and tries again, or gives up, as it would have done
\* under the retry bound in force before the change.
C35_ConfigChangeKeepsRetryBound ==
    [][(config' # config /\ pc \in {"fetchList", "fetchDocs", "update"}) =>
          \A e \in TransientMessages :
              RetryCatch(State', pc, Err(e)).pc = RetryCatch(State, pc, Err(e)).pc]_vars


\* The documents of a SubjectResult that obtained an approved, rejected or
\* error outcome.
OutcomeIds(result) ==
    IdsOf(SelectSeq(result.documents, LAMBDA d : d.ai_status # "skipped"))

\* C36 as stated. No outcome is left out of the write-back: while
\* updateDocumentStatus is being attempted its payload has exactly one entry
\* per document with an approved, rejected or error outcome, and a subject
\* that finalizes with at least one such document finalizes out of an attempt
\* of updateDocumentStatus, also when a stop was requested meanwhile.
C36_EveryOutcomeWrittenBack ==
    /\ [](pc \in {"update", "updateSleep"} =>
            IdsOf(statusUpdates) = OutcomeIds(studentResult))
    /\ [][(StudentReturns /\ config.retryAttempts >= 1
            /\ OutcomeIds(currentRun'.students[Len(currentRun'.students)]) # <<>>)
           => pc \in {"update", "updateSleep"}]_vars


\* C37 as stated. Under every configuration that updateConfig leaves behind,
\* a run never blocks inside chunkArray, and its run function never ends
\* without finishRun because withRetry threw an undefined error.
C37_AcceptedConfigStillTerminates ==
    /\ pc # "hung"
    /\ pc # "rejected"


\* C38. Wherever a batch run can be observed (at every await of the run and
\* after finishRun): processed = completed + skipped + errors, processed is
\* the number of SubjectResults the run holds, and processed <= totalStudents;
\* the summaries in the history satisfy the first and the last.  The run
\* object of a single-subject run satisfies the same.
C38_BatchCountersAgree ==
    /\ currentRun # Null =>
          /\ currentRun.processed
                = currentRun.completed + currentRun.skipped + currentRun.errors
          /\ currentRun.processed = Len(currentRun.students)
          /\ currentRun.processed <= currentRun.totalStudents
    /\ \A i \in 1..Len(runs) :
          /\ runs[i].processed = runs[i].completed + runs[i].skipped + runs[i].errors
          /\ runs[i].processed <= runs[i].totalStudents
\* A batch run over two entries, one of them without an id, waits after a
\* subject that was skipped.
C38_SkippedSubjectCounted ==
    /\ kind = "batch"
    /\ pc = "studentDelay"
    /\ students = <<NoId, "s1">>
    /\ currentRun.totalStudents = 2
    /\ currentRun.processed = 1
    /\ currentRun.skipped = 1


RECURSIVE SumErrors(_)
\* The errors of the completed and partial SubjectResults of a list.
SumErrors(results) ==
    IF results = <<>> THEN 0
    ELSE (IF Head(results).status \in {"completed", "partial"}
          THEN Head(results).errors ELSE 0) + SumErrors(Tail(results))

\* C39 as stated. totalDocsVerified of a run is the number of documents of
\* its completed and partial subjects that obtained an outcome:
\* totalApproved + totalRejected + the errors of those subjects, also when a
\* stop was requested in the middle of a subject.
C39_DocsVerifiedAreOutcomes ==
    currentRun # Null =>
        currentRun.totalDocsVerified
            = currentRun.totalApproved + currentRun.totalRejected
              + SumErrors(currentRun.students)


\* C40. A stop request reaches only the run that executes when it is made.
\* With no run executing, stopScheduler leaves the stop flag as it is, and a
\* run started then (by runBatch, by the trigger or by verifySingleStudent)
\* is the run that would start had the flag never been raised: it starts
\* with the flag cleared.  The run object has status stopped only with the
\* flag raised, so only through a request made during that run.
C40_StopReachesOnlyActiveRun ==
    /\ ~isRunning =>
          /\ stopScheduler(State).shouldStop = shouldStop
          /\ runBatch(State) = runBatch(NoStop)
          /\ cronCallback(State) = cronCallback(NoStop)
          /\ \A a \in Students :
                verifySingleStudent(State, a) = verifySingleStudent(NoStop, a)
    /\ (currentRun # Null /\ currentRun.status = "stopped") => shouldStop
\* The run before was stopped; the next run started with the flag cleared and
\* is processing its subject.
C40_RunAfterStoppedRun ==
    /\ isRunning
    /\ currentRun.id = 2
    /\ kind = "batch"
    /\ pc = "fetchDocs"
    /\ ~shouldStop
    /\ Len(runs) = 1
    /\ runs[1].id = 1
    /\ runs[1].status = "stopped"

====
